---- MODULE Spec2Model ----
(***************************************************************************)
(* The `create` command of the wallet (src/src/cmd/create.rs): Basic::run  *)
(* and Sharded::run, their helper gen_keypair and open_output_file, and    *)
(* the file system they write to.  Up to two invocations of the command    *)
(* run as separate processes over one shared file system.                  *)
(***************************************************************************)
EXTENDS Integers, Sequences, FiniteSets, TLC

\* ------------------------------------------------------------------ bounds

\* Largest value of -n / -k drawn for a command line.
MaxShards == 2
\* u8::MAX: -n and -k are parsed as u8.
U8Max == 255
\* Largest length, in chunks, of a file that exists before the command runs.
MaxOldLen == 3
\* Length, in chunks, of one serialized artifact (a wallet or a shard).
ArtifactLen == 2

\* The invocations of the command.
Runs == {1, 2}

\* ------------------------------------------------------------ option/result

None == <<>>
Some(v) == <<v>>
IsSome(o) == o # <<>>
Unwrap(o) == o[1]

Ok(v) == [ok |-> TRUE, val |-> <<v>>, err |-> ""]
Err(e) == [ok |-> FALSE, val |-> <<>>, err |-> e]

\* ------------------------------------------------------------------- paths
\* A path is the sequence of the dot-separated segments of its file name:
\* wallet.key is <<"wallet", "key">>; a path with no file name (such as ..)
\* is <<>>.

\* Path::extension: the part after the last dot, unless the name has no dot
\* or its only dot is the leading one.
HasExtension(p) == Len(p) >= 2 /\ ~(Len(p) = 2 /\ p[1] = "")

get_file_extension(p) == IF HasExtension(p) THEN p[Len(p)] ELSE ""

\* PathBuf::set_extension with a non-empty extension, given as its segments:
\* a path with no file name is left as it is; otherwise the extension
\* replaces the old one (or is added to a name that has none).
set_extension(p, e) ==
    IF p = <<>> THEN p
    ELSE (IF HasExtension(p) THEN SubSeq(p, 1, Len(p) - 1) ELSE p) \o e

\* Faulty variant: the share number is the zero-based position.
share_extension_ZeroBased(extension, idx) == <<extension, ToString(idx)>>

\* format!("{}.{}", extension, (i + 1).to_string()), as segments.
share_extension(extension, idx) == <<extension, ToString(idx + 1)>>

\* The file name of the shard at zero-based position idx.
ShardFilename(output, idx) ==
    set_extension(output, share_extension(get_file_extension(output), idx))

\* ----------------------------------------------------------- key material

SeedTypes == {"bip39", "mobile"}
Phrases == {"phraseA", "phraseB", "badChecksum"}
ValidPhrases == {"phraseA", "phraseB"}
Passwords == {"pw"}
Tags == {[network |-> "main", key_type |-> "ed25519"],
         [network |-> "test", key_type |-> "ecc_compact"]}

\* mnemonic::mnemonic_to_entropy: a function of the words and the grammar,
\* failing on a phrase the grammar rejects; the two grammars never decode
\* a phrase to the same entropy.
mnemonic_to_entropy(words, seed_type) ==
    IF words \in ValidPhrases THEN Ok(<<words, seed_type>>)
    ELSE Err("InvalidMnemonic")

\* The entropy values (what a phrase decodes to, what the RNG can draw).
Entropies == ValidPhrases \X SeedTypes

\* The keypair that a tag and an entropy value determine.
KeypairOf(tag, entropy) == [tag |-> tag, secret |-> entropy]

\* Keypair::generate_from_entropy: the keypair is a function of (tag,
\* entropy); the call may refuse the key type.
generate_from_entropy(tag, entropy) ==
    {Ok(KeypairOf(tag, entropy)), Err("UnsupportedKeyType")}

\* Keypair::generate: a keypair from entropy drawn from the process RNG.
generate(tag) == {KeypairOf(tag, e) : e \in Entropies}

\* Faulty variant: the seed is ignored and the keypair is always drawn at random.
gen_keypair_AlwaysRandom(tag, seed_words, seed_type) ==
    {[res |-> Ok(kp), calls |-> <<<<"Keypair::generate", "Ok">>>>] :
        kp \in generate(tag)}

\* gen_keypair: the set of its possible outcomes, each the Result and the
\* calls made on the way.
gen_keypair(tag, seed_words, seed_type) ==
    IF IsSome(seed_words) /\ IsSome(seed_type) THEN
        LET entropy == mnemonic_to_entropy(Unwrap(seed_words), Unwrap(seed_type)) IN
        IF ~entropy.ok
        THEN {[res |-> Err(entropy.err),
               calls |-> <<<<"mnemonic_to_entropy", "Err">>>>]}
        ELSE {[res |-> kp,
               calls |-> <<<<"mnemonic_to_entropy", "Ok">>,
                           <<"Keypair::generate_from_entropy",
                             IF kp.ok THEN "Ok" ELSE "Err">>>>] :
                 kp \in generate_from_entropy(tag, Unwrap(entropy.val))}
    ELSE IF ~IsSome(seed_words) /\ ~IsSome(seed_type) THEN
        {[res |-> Ok(kp), calls |-> <<<<"Keypair::generate", "Ok">>>>] :
            kp \in generate(tag)}
    ELSE {[res |-> Err("InvalidParameters"), calls |-> <<>>]}

\* ------------------------------------------------------------------ wallet

\* format::Basic { pwhash } / format::Sharded { key_share_count,
\* recovery_threshold, pwhash, key_shares: vec![] } as the run builds them.
BasicFormat == [variant |-> "Basic", key_share_count |-> 0, recovery_threshold |-> 0]

\* Faulty variant: the two counts are handed over in each other's place.
ShardedFormat_Swapped(c) ==
    [variant |-> "Sharded",
     key_share_count |-> c.recovery_threshold,
     recovery_threshold |-> c.key_share_count]

ShardedFormat(c) ==
    [variant |-> "Sharded",
     key_share_count |-> c.key_share_count,
     recovery_threshold |-> c.recovery_threshold]

\* Wallet::encrypt, with the salt it draws: the encrypted wallet, or
\* InvalidThreshold for a sharded format with k > n or k < 1.
encrypt(kp, pw, format, salt) ==
    IF format.variant = "Sharded"
       /\ (format.recovery_threshold > format.key_share_count
           \/ format.recovery_threshold < 1)
    THEN Err("InvalidThreshold")
    ELSE Ok([format |-> format, salt |-> salt, tag |-> kp.tag])

\* Wallet::shards: the key_share_count shards of a sharded wallet, in order.
shards(w) ==
    [j \in 1..w.format.key_share_count |->
        [salt |-> w.salt, index |-> j,
         threshold |-> w.format.recovery_threshold]]

\* One chunk of file content.
Chunk(src, salt, share, off) ==
    [src |-> src, salt |-> salt, share |-> share, off |-> off]

\* Wallet::write / the shard's write: the bytes of the artifact, in chunks.
\* share is 0 for a basic wallet.
Serialize(salt, share) ==
    [j \in 1..ArtifactLen |-> Chunk("wallet", salt, share, j)]

\* The content of a file that exists before any run starts.
OldContent(len) == [j \in 1..len |-> Chunk("old", 0, 0, j)]

\* ------------------------------------------------------------- file system

\* Faulty variant: create_new is never set, so an existing file is opened.
open_output_file_NoCreateNew(d, filename, create) ==
    {[res |-> Err("Io"), disk |-> d]}
    \cup
    (IF filename = <<>> THEN {}
     ELSE IF filename \in DOMAIN d
     THEN {[res |-> Ok([filename |-> filename, pos |-> 0]), disk |-> d]}
     ELSE {[res |-> Ok([filename |-> filename, pos |-> 0]),
            disk |-> (filename :> <<>>) @@ d]})

\* open_output_file(filename, create): OpenOptions write(true), create(true),
\* create_new(create).  The outcomes over disk d: the Result and the disk
\* after the call.  No option truncates the file.
open_output_file(d, filename, create) ==
    {[res |-> Err("Io"), disk |-> d]}
    \cup
    (IF filename = <<>> THEN {}
     ELSE IF filename \in DOMAIN d THEN
        (IF create
         THEN {[res |-> Err("AlreadyExists"), disk |-> d]}
         ELSE {[res |-> Ok([filename |-> filename, pos |-> 0]), disk |-> d]})
     ELSE {[res |-> Ok([filename |-> filename, pos |-> 0]),
            disk |-> (filename :> <<>>) @@ d]})

\* One write call on an open file: the chunk goes at the writer's position,
\* over what is there or at the end.
WriteAt(d, w, chunk) ==
    [d EXCEPT ![w.filename] =
        IF w.pos < Len(@) THEN [@ EXCEPT ![w.pos + 1] = chunk]
        ELSE Append(@, chunk)]

\* ------------------------------------------------------------------- state

VARIABLES
    cmd,         \* cmd[r]: the parsed command line of run r (None: no run)
    disk,        \* the file system: file name -> content
    disk0,       \* the file system before any run started
    pc,          \* pc[r]: the step run r is at
    err,         \* err[r]: the error run r returned ("" for none)
    seed_words,  \* the locals of run r, None when not in scope
    password,
    keypair,
    wallet,
    i,           \* i[r]: the zero-based position of the shard being written
    writer,      \* writer[r]: the open output file and the position in it
    log,         \* log[r]: the calls run r made, each with its outcome
    opened,      \* opened[r]: the file names run r opened, in order
    created,     \* created[r]: the file names run r's opens created
    written      \* written[r]: the file names run r wrote completely

vars == <<cmd, disk, disk0, pc, err, seed_words, password, keypair, wallet,
          i, writer, log, opened, created, written>>

locals == <<seed_words, password, keypair, wallet, i, writer>>
history == <<opened, created, written>>

\* ------------------------------------------------------------ command line

\* wallet.key, wallet, .key and a path with no file name.
Outputs == {<<"wallet", "key">>, <<"wallet">>, <<"", "key">>, <<>>}

\* The command lines of `create basic`.
BasicCmds(outputs, seeds, tags) ==
    [variant : {"Basic"}, output : outputs, force : BOOLEAN,
     key_share_count : {0}, recovery_threshold : {0},
     seed : seeds, tag : tags]

\* The command lines of `create sharded`; -n and -k are u8.
ShardedCmds(outputs, seeds, tags, counts) ==
    [variant : {"Sharded"}, output : outputs, force : BOOLEAN,
     key_share_count : counts \cap (0..U8Max),
     recovery_threshold : counts \cap (0..U8Max),
     seed : seeds, tag : tags]

SeedOptions == {None} \cup {Some(t) : t \in SeedTypes}

\* The file names a run of command c may touch.
Targets(c) ==
    IF c.variant = "Basic" THEN {c.output}
    ELSE {c.output} \cup {ShardFilename(c.output, j) : j \in 0..(MaxShards - 1)}

\* A disk holding old files under some of the names in paths.
Disks(paths) ==
    {[p \in S |-> OldContent(len)] :
        S \in SUBSET (paths \ {<<>>}), len \in {1, MaxOldLen}}

InitWith(c) ==
    /\ cmd = c
    /\ disk \in Disks(UNION {Targets(Unwrap(c[r])) : r \in {q \in Runs : IsSome(c[q])}})
    /\ disk0 = disk
    /\ pc = [r \in Runs |-> IF IsSome(c[r]) THEN "get_seed_words" ELSE "none"]
    /\ err = [r \in Runs |-> ""]
    /\ seed_words = [r \in Runs |-> None]
    /\ password = [r \in Runs |-> None]
    /\ keypair = [r \in Runs |-> None]
    /\ wallet = [r \in Runs |-> None]
    /\ i = [r \in Runs |-> 0]
    /\ writer = [r \in Runs |-> None]
    /\ log = [r \in Runs |-> <<>>]
    /\ opened = [r \in Runs |-> <<>>]
    /\ created = [r \in Runs |-> {}]
    /\ written = [r \in Runs |-> <<>>]

\* ------------------------------------------------------------------- steps

C(r) == Unwrap(cmd[r])

\* Run r returns: Ok(()) when e is "", the error e otherwise.  Its locals
\* go out of scope.
Return(r, e) ==
    /\ pc' = [pc EXCEPT ![r] = IF e = "" THEN "done" ELSE "failed"]
    /\ err' = [err EXCEPT ![r] = e]
    /\ seed_words' = [seed_words EXCEPT ![r] = None]
    /\ password' = [password EXCEPT ![r] = None]
    /\ keypair' = [keypair EXCEPT ![r] = None]
    /\ wallet' = [wallet EXCEPT ![r] = None]
    /\ writer' = [writer EXCEPT ![r] = None]
    /\ i' = [i EXCEPT ![r] = 0]

Goto(r, step) ==
    /\ pc' = [pc EXCEPT ![r] = step]
    /\ err' = err

Logged(r, calls) == log' = [log EXCEPT ![r] = @ \o calls]

\* let seed_words = match &self.seed { Some(t) => Some(get_seed_words(t)?), None => None };
GetSeedWords(r) ==
    /\ pc[r] = "get_seed_words"
    /\ \/ /\ ~IsSome(C(r).seed)
          /\ Goto(r, "get_password")
          /\ UNCHANGED <<cmd, disk, disk0, locals, log, history>>
       \/ /\ IsSome(C(r).seed)
          /\ \E words \in Phrases :
                /\ seed_words' = [seed_words EXCEPT ![r] = Some(words)]
                /\ Goto(r, "get_password")
                /\ Logged(r, <<<<"get_seed_words", "Ok">>>>)
                /\ UNCHANGED <<cmd, disk, disk0, password, keypair, wallet, i,
                               writer, history>>
       \/ /\ IsSome(C(r).seed)
          /\ Return(r, "Io")
          /\ Logged(r, <<<<"get_seed_words", "Err">>>>)
          /\ UNCHANGED <<cmd, disk, disk0, history>>

\* let password = get_password(true)?;
GetPassword(r) ==
    /\ pc[r] = "get_password"
    /\ \/ \E pw \in Passwords :
            /\ password' = [password EXCEPT ![r] = Some(pw)]
            /\ Goto(r, "gen_keypair")
            /\ Logged(r, <<<<"get_password", "Ok">>>>)
            /\ UNCHANGED <<cmd, disk, disk0, seed_words, keypair, wallet, i,
                           writer, history>>
       \/ /\ Return(r, "Io")
          /\ Logged(r, <<<<"get_password", "Err">>>>)
          /\ UNCHANGED <<cmd, disk, disk0, history>>

\* let keypair = gen_keypair(tag, seed_words, self.seed.as_ref())?;
GenKeypair(r) ==
    /\ pc[r] = "gen_keypair"
    /\ \E out \in gen_keypair(C(r).tag, seed_words[r], C(r).seed) :
          /\ Logged(r, out.calls)
          /\ \/ /\ out.res.ok
                /\ keypair' = [keypair EXCEPT ![r] = out.res.val]
                /\ Goto(r, "encrypt")
                /\ UNCHANGED <<cmd, disk, disk0, seed_words, password, wallet,
                               i, writer, history>>
             \/ /\ ~out.res.ok
                /\ Return(r, out.res.err)
                /\ UNCHANGED <<cmd, disk, disk0, history>>

\* The format the run hands to Wallet::encrypt.
FormatOf(c) == IF c.variant = "Basic" THEN BasicFormat ELSE ShardedFormat(c)

\* Faulty variant: an error of Wallet::encrypt is not propagated; the run goes on.
Encrypt_ErrorSwallowed(r) ==
    /\ pc[r] = "encrypt"
    /\ \E res \in {encrypt(Unwrap(keypair[r]), Unwrap(password[r]),
                           FormatOf(C(r)), r),
                   Err("KdfFailure")} :
          /\ wallet' = [wallet EXCEPT ![r] = res.val]
          /\ Goto(r, IF C(r).variant = "Basic" THEN "open" ELSE "shards")
          /\ Logged(r, <<<<"Wallet::encrypt", IF res.ok THEN "Ok" ELSE "Err">>>>)
          /\ UNCHANGED <<cmd, disk, disk0, seed_words, password, keypair,
                         i, writer, history>>

\* let wallet = Wallet::encrypt(&keypair, password.as_bytes(), format)?;
\* The salt drawn is fresh: no two runs draw the same.
Encrypt(r) ==
    /\ pc[r] = "encrypt"
    /\ \E res \in {encrypt(Unwrap(keypair[r]), Unwrap(password[r]),
                           FormatOf(C(r)), r),
                   Err("KdfFailure")} :
          \/ /\ res.ok
             /\ wallet' = [wallet EXCEPT ![r] = res.val]
             /\ Goto(r, IF C(r).variant = "Basic" THEN "open" ELSE "shards")
             /\ Logged(r, <<<<"Wallet::encrypt", "Ok">>>>)
             /\ UNCHANGED <<cmd, disk, disk0, seed_words, password, keypair,
                            i, writer, history>>
          \/ /\ ~res.ok
             /\ Return(r, res.err)
             /\ Logged(r, <<<<"Wallet::encrypt", "Err">>>>)
             /\ UNCHANGED <<cmd, disk, disk0, history>>

\* The number of artifacts the run writes: one wallet, or the shards.
Artifacts(r) ==
    IF C(r).variant = "Basic" THEN 1 ELSE Len(shards(Unwrap(wallet[r])))

\* let extension = get_file_extension(&self.output);
\* for (i, shard) in wallet.shards()?.iter().enumerate() {
Shards(r) ==
    /\ pc[r] = "shards"
    /\ i' = [i EXCEPT ![r] = 0]
    /\ Goto(r, IF Artifacts(r) = 0 THEN "print_result" ELSE "open")
    /\ Logged(r, <<<<"Wallet::shards", "Ok">>>>)
    /\ UNCHANGED <<cmd, disk, disk0, seed_words, password, keypair, wallet,
                   writer, history>>

\* The file name the run opens next: self.output, or the shard's name.
Filename(r) ==
    IF C(r).variant = "Basic" THEN C(r).output
    ELSE ShardFilename(C(r).output, i[r])

\* let mut writer = open_output_file(&filename, !self.force)?;
OpenOutputFile(r) ==
    /\ pc[r] = "open"
    /\ \E out \in open_output_file(disk, Filename(r), ~C(r).force) :
          /\ disk' = out.disk
          /\ \/ /\ out.res.ok
                /\ writer' = [writer EXCEPT ![r] = out.res.val]
                /\ opened' = [opened EXCEPT ![r] = Append(@, Filename(r))]
                /\ created' = [created EXCEPT ![r] =
                                  IF Filename(r) \in DOMAIN disk THEN @
                                  ELSE @ \cup {Filename(r)}]
                /\ Goto(r, "write")
                /\ Logged(r, <<<<"open_output_file", "Ok">>>>)
                /\ UNCHANGED <<cmd, disk0, seed_words, password, keypair,
                               wallet, i, written>>
             \/ /\ ~out.res.ok
                /\ Return(r, out.res.err)
                /\ Logged(r, <<<<"open_output_file", "Err">>>>)
                /\ UNCHANGED <<cmd, disk0, history>>

\* Faulty variant: the keypair is serialized to the writer, not the wallet.
ArtifactBytes_Keypair(r) ==
    [j \in 1..ArtifactLen |-> Chunk("keypair", r, 0, j)]

\* The bytes wallet.write / shard.write sends to the writer.
ArtifactBytes(r) ==
    IF C(r).variant = "Basic" THEN Serialize(Unwrap(wallet[r]).salt, 0)
    ELSE Serialize(shards(Unwrap(wallet[r]))[i[r] + 1].salt,
                   shards(Unwrap(wallet[r]))[i[r] + 1].index)

\* Faulty variant: the result is printed from inside the loop, after one shard.
AfterWrite_PrintEarly(r) == "print_result"

\* Where the run goes once an artifact is written: the next shard, or
\* verify::print_result after the last.
AfterWrite(r) ==
    IF i[r] + 1 < Artifacts(r) THEN "open" ELSE "print_result"

\* wallet.write(&mut writer)? / shard.write(&mut writer)?, one write call
\* at a time; the writer is dropped (the file closed) after the last.
Write(r) ==
    /\ pc[r] = "write"
    /\ \/ /\ Unwrap(writer[r]).pos + 1 < ArtifactLen
          /\ disk' = WriteAt(disk, Unwrap(writer[r]),
                             ArtifactBytes(r)[Unwrap(writer[r]).pos + 1])
          /\ writer' = [writer EXCEPT ![r] =
                           Some([Unwrap(@) EXCEPT !.pos = @ + 1])]
          /\ UNCHANGED <<cmd, disk0, pc, err, seed_words, password, keypair,
                         wallet, i, log, history>>
       \/ /\ Unwrap(writer[r]).pos + 1 = ArtifactLen
          /\ disk' = WriteAt(disk, Unwrap(writer[r]),
                             ArtifactBytes(r)[Unwrap(writer[r]).pos + 1])
          /\ writer' = [writer EXCEPT ![r] = None]
          /\ written' = [written EXCEPT ![r] =
                            Append(@, Unwrap(writer[r]).filename)]
          /\ i' = [i EXCEPT ![r] = IF AfterWrite(r) = "open" THEN @ + 1 ELSE @]
          /\ Goto(r, AfterWrite(r))
          /\ Logged(r, <<<<"write", "Ok">>>>)
          /\ UNCHANGED <<cmd, disk0, seed_words, password, keypair, wallet,
                         opened, created>>
       \/ /\ Return(r, "Io")
          /\ Logged(r, <<<<"write", "Err">>>>)
          /\ UNCHANGED <<cmd, disk, disk0, history>>

\* verify::print_result(&wallet, true, opts.format)
PrintResult(r) ==
    /\ pc[r] = "print_result"
    /\ \/ /\ Return(r, "")
          /\ Logged(r, <<<<"verify::print_result", "Ok">>>>)
       \/ /\ Return(r, "Io")
          /\ Logged(r, <<<<"verify::print_result", "Err">>>>)
    /\ UNCHANGED <<cmd, disk, disk0, history>>

Next ==
    \E r \in Runs :
        \/ GetSeedWords(r)
        \/ GetPassword(r)
        \/ GenKeypair(r)
        \/ Encrypt(r)
        \/ Shards(r)
        \/ OpenOutputFile(r)
        \/ Write(r)
        \/ PrintResult(r)

\* ---------------------------------------------------------- specifications

\* One invocation, over every command line and every disk.
Init ==
    \E c \in BasicCmds(Outputs, SeedOptions, {CHOOSE t \in Tags : TRUE})
             \cup ShardedCmds(Outputs, SeedOptions, {CHOOSE t \in Tags : TRUE},
                              0..MaxShards) :
        InitWith([r \in Runs |-> IF r = 1 THEN Some(c) ELSE None])

Spec == Init /\ [][Next]_vars

\* Two invocations of `create sharded -n 2 -k 2` racing for one output path.
InitRace ==
    \E c \in [Runs -> ShardedCmds({<<"wallet", "key">>}, {None},
                                  {CHOOSE t \in Tags : TRUE}, {2})] :
        InitWith([r \in Runs |-> Some(c[r])])

SpecRace == InitRace /\ [][Next]_vars

\* Two forced invocations with every seed option and key tag, a sharded one
\* (-n 1 -k 1) and a basic one, on outputs of their own and an empty disk.
InitSeeded ==
    \E c1 \in ShardedCmds({<<"wallet", "key">>}, SeedOptions, Tags, {1}),
       c2 \in BasicCmds({<<"wallet">>}, SeedOptions, Tags) :
        /\ c1.force /\ c2.force
        /\ InitWith(<<Some(c1), Some(c2)>>)
        /\ disk = <<>>

SpecSeeded == InitSeeded /\ [][Next]_vars

\* ------------------------------------------------------------------ claims

Range(s) == {s[k] : k \in 1..Len(s)}
Last(s) == s[Len(s)]
Called(r, name) == \E k \in 1..Len(log[r]) : log[r][k][1] = name
Encrypted(r) == <<"Wallet::encrypt", "Ok">> \in Range(log[r])
IsRun(r) == IsSome(cmd[r])
Alone(r) == \A q \in Runs \ {r} : ~IsRun(q)
IsSharded(r) == IsRun(r) /\ C(r).variant = "Sharded"

\* C1: a run whose Wallet::encrypt has not returned Ok has opened, created
\* and modified no file; every call of open_output_file comes after the Ok
\* of Wallet::encrypt; a step that fails makes the run return its error.
C1_NoFileBeforeEncrypt ==
    \A r \in Runs :
        /\ \A k \in 1..Len(log[r]) :
              log[r][k][1] = "open_output_file" =>
                  \E j \in 1..(k - 1) : log[r][j] = <<"Wallet::encrypt", "Ok">>
        /\ ~Encrypted(r) =>
              /\ opened[r] = <<>> /\ created[r] = {} /\ written[r] = <<>>
              /\ writer[r] = None
              /\ Alone(r) => disk = disk0
        /\ (log[r] # <<>> /\ Last(log[r])[2] = "Err") =>
              pc[r] = "failed" /\ err[r] # ""

\* A run that failed in Wallet::encrypt, with files on the disk.
C1_Witness ==
    \E r \in Runs :
        /\ pc[r] = "failed"
        /\ Last(log[r]) = <<"Wallet::encrypt", "Err">>
        /\ DOMAIN disk0 # {}
        /\ disk = disk0

\* C2: a sharded run that failed opening or writing a shard after it wrote
\* earlier shards has removed those shard files or warned about them.
C2_FailedShardWriteCleansUp ==
    \A r \in Runs :
        (/\ IsSharded(r)
         /\ pc[r] = "failed"
         /\ written[r] # <<>>
         /\ Last(log[r])[1] \in {"open_output_file", "write"})
        => \/ \A p \in Range(written[r]) : p \notin DOMAIN disk
           \/ Called(r, "warn")

\* C3: without --force a run never gets a writer on a file that existed,
\* and while no run is forced every file that existed keeps its content;
\* a run stopped by an existing file has an error.
C3_NoForceKeepsExisting ==
    \A r \in Runs :
        (IsRun(r) /\ ~C(r).force) =>
            /\ \A k \in 1..Len(opened[r]) : opened[r][k] \notin DOMAIN disk0
            /\ Range(opened[r]) \subseteq created[r]
            /\ (\A q \in Runs : IsRun(q) => ~C(q).force) =>
                  \A p \in DOMAIN disk0 : p \in DOMAIN disk /\ disk[p] = disk0[p]
            /\ (pc[r] = "done" /\ Alone(r)) =>
                  \A p \in Range(written[r]) : p \notin DOMAIN disk0
            /\ err[r] = "AlreadyExists" => pc[r] = "failed"

\* An unforced sharded run that wrote a shard and was then refused the next
\* shard's file, which existed.
C3_Witness ==
    \E r \in Runs :
        /\ IsRun(r) /\ ~C(r).force
        /\ err[r] = "AlreadyExists"
        /\ written[r] # <<>>
        /\ \E p \in DOMAIN disk0 : disk[p] = disk0[p] /\ Len(disk0[p]) = MaxOldLen

\* C4: a file is empty when its writer is handed over, and after a
\* successful run each file written holds exactly the artifact's bytes.
C4_SinkInitiallyEmpty ==
    \A r \in Runs :
        /\ (IsSome(writer[r]) /\ Unwrap(writer[r]).pos = 0) =>
              disk[Unwrap(writer[r]).filename] = <<>>
        /\ (pc[r] = "done" /\ Alone(r)) =>
              \A p \in Range(written[r]) :
                  /\ Len(disk[p]) = ArtifactLen
                  /\ \A j \in 1..Len(disk[p]) : disk[p][j].src = "wallet"

\* C5: a sharded run that wrote all its artifacts wrote one file per shard:
\* the shard with one-based number j went to the output name with .j added
\* after its extension (the empty extension for a name without one), these
\* names differ from each other and from the output path, which is untouched.
C5_OneFilePerShard ==
    \A r \in Runs :
        (IsSharded(r) /\ Alone(r) /\ pc[r] \in {"print_result", "done"}) =>
            LET n == C(r).key_share_count
                out == C(r).output
                dotted == Len(out) >= 2 /\ out[1] # ""
                name(j) == IF dotted THEN out \o <<ToString(j)>>
                           ELSE out \o <<"", ToString(j)>>
            IN  /\ Len(written[r]) = n
                /\ opened[r] = written[r]
                /\ \A j \in 1..n :
                      /\ written[r][j] = name(j)
                      /\ SubSeq(disk[name(j)], 1, ArtifactLen) = Serialize(r, j)
                /\ \A j, k \in 1..n : j # k => written[r][j] # written[r][k]
                /\ out \notin Range(written[r])
                /\ out \in DOMAIN disk <=> out \in DOMAIN disk0
                /\ out \in DOMAIN disk => disk[out] = disk0[out]

\* A finished sharded run of MaxShards shards on an output without extension.
C5_Witness ==
    \E r \in Runs :
        /\ IsSharded(r) /\ pc[r] = "done"
        /\ C(r).output = <<"wallet">>
        /\ Len(written[r]) = MaxShards
        /\ C(r).output \in DOMAIN disk

\* C6: a sharded run that holds a wallet or touched a file has
\* 1 <= k <= n <= 255; with k > n or k < 1 on the command line the run
\* gets no further than Wallet::encrypt, ends failed and leaves the disk as
\* it was.
C6_ThresholdInvariant ==
    \A r \in Runs :
        IsSharded(r) =>
            LET n == C(r).key_share_count
                k == C(r).recovery_threshold
            IN  /\ (IsSome(wallet[r]) \/ opened[r] # <<>> \/ created[r] # {}
                                      \/ written[r] # <<>>) =>
                      (1 <= k /\ k <= n /\ n <= U8Max)
                /\ (k > n \/ k < 1) =>
                      /\ pc[r] \in {"get_seed_words", "get_password",
                                    "gen_keypair", "encrypt", "failed"}
                      /\ pc[r] = "failed" => err[r] # ""
                      /\ Alone(r) => disk = disk0

\* A run with k > n >= 1 refused by Wallet::encrypt.
C6_Witness ==
    \E r \in Runs :
        /\ IsSharded(r)
        /\ C(r).recovery_threshold > C(r).key_share_count
        /\ C(r).key_share_count >= 1
        /\ pc[r] = "failed" /\ err[r] = "InvalidThreshold"

\* C7: every chunk on the disk is a chunk that was there before the runs,
\* or a chunk of the wallet (or a shard of it) that a run's Wallet::encrypt
\* returned, in a file that run opened; no writer exists and no write is
\* made before Wallet::encrypt returned Ok.
C7_OnlyEncryptedPersisted ==
    /\ \A p \in DOMAIN disk : \A j \in 1..Len(disk[p]) :
          \/ p \in DOMAIN disk0 /\ j <= Len(disk0[p]) /\ disk[p][j] = disk0[p][j]
          \/ /\ disk[p][j].src = "wallet"
             /\ disk[p][j].salt \in Runs
             /\ Encrypted(disk[p][j].salt)
             /\ p \in Range(opened[disk[p][j].salt])
             /\ disk[p][j].off = j
    /\ \A r \in Runs : (IsSome(writer[r]) \/ Called(r, "write")) => Encrypted(r)

\* A finished run whose file holds the wallet's chunks over an old file.
C7_Witness ==
    \E r \in Runs :
        /\ pc[r] = "done"
        /\ \E p \in Range(written[r]) :
              /\ p \in DOMAIN disk0
              /\ disk[p][1].src = "wallet" /\ disk[p][1].salt = r

\* C8: with a seed type the keypair is a function of (tag, words, seed
\* type): two runs given the same have the same keypair, and
\* Keypair::generate is not called; with no seed type only Keypair::generate
\* is called and no mnemonic is read or decoded.
C8_SeededKeypairDeterministic ==
    /\ \A r \in Runs :
          IsRun(r) =>
              /\ IsSome(C(r).seed) => ~Called(r, "Keypair::generate")
              /\ ~IsSome(C(r).seed) =>
                    /\ ~Called(r, "get_seed_words")
                    /\ ~Called(r, "mnemonic_to_entropy")
                    /\ ~Called(r, "Keypair::generate_from_entropy")
                    /\ IsSome(keypair[r]) => Called(r, "Keypair::generate")
    /\ \A r1, r2 \in Runs :
          (/\ IsRun(r1) /\ IsRun(r2)
           /\ IsSome(C(r1).seed) /\ C(r1).seed = C(r2).seed
           /\ C(r1).tag = C(r2).tag
           /\ seed_words[r1] = seed_words[r2]
           /\ IsSome(keypair[r1]) /\ IsSome(keypair[r2]))
          => keypair[r1] = keypair[r2]

\* Two runs given the same tag, seed type and words, both holding a keypair.
C8_Witness ==
    \E r1, r2 \in Runs :
        /\ r1 # r2
        /\ IsSome(C(r1).seed) /\ C(r1).seed = C(r2).seed
        /\ C(r1).tag = C(r2).tag
        /\ IsSome(seed_words[r1]) /\ seed_words[r1] = seed_words[r2]
        /\ IsSome(keypair[r1]) /\ IsSome(keypair[r2])

\* C9: an error is the last thing a run does: nothing follows an Err in its
\* log, a run that returned takes no further step, and
\* verify::print_result is called only once every artifact is written.
C9_ErrorsTerminal ==
    /\ [](\A r \in Runs :
            /\ \A k \in 1..Len(log[r]) : log[r][k][2] = "Err" => k = Len(log[r])
            /\ pc[r] = "failed" <=> (log[r] # <<>> /\ Last(log[r])[2] = "Err")
            /\ (IsRun(r) /\ (pc[r] = "print_result"
                             \/ Called(r, "verify::print_result"))) =>
                  /\ Len(written[r]) =
                        (IF C(r).variant = "Basic" THEN 1
                         ELSE C(r).key_share_count)
                  /\ writer[r] = None)
    /\ [][\A r \in Runs :
            pc[r] \in {"failed", "done"} =>
                /\ pc'[r] = pc[r] /\ err'[r] = err[r] /\ log'[r] = log[r]
                /\ opened'[r] = opened[r] /\ created'[r] = created[r]
                /\ written'[r] = written[r]
                /\ Alone(r) => disk' = disk]_vars

\* A sharded run that wrote its first shard and failed writing the second.
C9_Witness ==
    \E r \in Runs :
        /\ IsSharded(r) /\ pc[r] = "failed"
        /\ Last(log[r]) = <<"write", "Err">>
        /\ Len(written[r]) = 1 /\ Len(opened[r]) = 2

\* Chunks of the wallets of two different runs are on the disk.
Mixed ==
    \E p, q \in DOMAIN disk :
        \E a \in 1..Len(disk[p]), b \in 1..Len(disk[q]) :
            /\ disk[p][a].src = "wallet" /\ disk[q][b].src = "wallet"
            /\ disk[p][a].salt # disk[q][b].salt

\* C10: of two unforced sharded runs on one output path at most one ever
\* opens or creates a shard file, and the disk never holds shards of both.
C10_ExclusiveCreateOneWinner ==
    \A r1, r2 \in Runs :
        (/\ r1 # r2
         /\ IsSharded(r1) /\ IsSharded(r2)
         /\ C(r1).output = C(r2).output
         /\ ~C(r1).force /\ ~C(r2).force)
        => /\ opened[r1] = <<>> \/ opened[r2] = <<>>
           /\ created[r1] = {} \/ created[r2] = {}
           /\ ~Mixed

\* C10, the forced case: both runs forced and finished, and the shard files
\* are one whole shard of each run's wallet.
C10_Witness ==
    /\ \A r \in Runs : IsSharded(r) /\ C(r).force /\ pc[r] = "done"
    /\ \E r1, r2 \in Runs :
          /\ r1 # r2
          /\ disk[ShardFilename(C(r1).output, 0)] = Serialize(r1, 1)
          /\ disk[ShardFilename(C(r1).output, 1)] = Serialize(r2, 2)

====
